---------------------------- MODULE Spec2Model ----------------------------
(***************************************************************************)
(* Model of the Governor contract of contracts/dao/lib.rs (ink!).          *)
(*                                                                         *)
(* The storage struct Governor is the state; propose, vote and execute are *)
(* the messages.  Every message is a pure operator from the storage before *)
(* the call (and the call's inputs, the block timestamp and the answers of *)
(* the token contract) to the result returned and the storage after it.    *)
(* A call that panics (unwrap on None, expect, division by zero) traps:    *)
(* the host discards the storage writes of the call, which the model       *)
(* reports as the result "Panic" with the storage of before the call.      *)
(*                                                                         *)
(* Balance is u128 and ProposalId, duration and the timestamps are u64:    *)
(* the inputs are drawn from the naturals, and the bounds keep every sum   *)
(* far below 2^64, so no arithmetic of the model wraps or overflows.       *)
(*                                                                         *)
(* Spec is the contract as deployed: new, then any calls of the messages.  *)
(* SpecTally is the tallying code of vote (from the receipt on) taken as a *)
(* function and applied to the storage after one propose: in Spec no vote  *)
(* call on a stored proposal gets as far as that code.                     *)
(***************************************************************************)
EXTENDS Integers, Sequences, FiniteSets

\* ---------------------------------------------------------------- bounds
\* The number of proposals created in a run.
MaxProposals == 2
\* The number of times the block timestamp advances in a run.
MaxTicks == 2

\* const ONE_MINUTE: u64 = 60;
ONE_MINUTE == 60

\* The block timestamp advances by a minute at a time.
TickStep == ONE_MINUTE

\* The accounts that call the contract or receive a transfer.
Accounts == {"alice", "bob"}
\* The amounts and durations a propose call is given (0 is the invalid one).
Amounts == {0, 100}
Durations == {0, 1}
\* The answers of the token contract to balance_of and total_supply, as
\* pairs <<balance, supply>>: 60% of the supply, all of it, under 1% of it,
\* and no supply.
TokenAnswers == {<<3, 5>>, <<2, 2>>, <<1, 200>>, <<2, 0>>}
\* The quorum the constructor is given (the tests construct with 50).
QuorumChoices == {0, 50}
\* The proposal ids a vote or execute call is given: every id propose can
\* assign, and one it never assigns.
ProposalIds == 1..(MaxProposals + 1)

VARIABLES
    proposals,          \* Mapping<ProposalId, Proposal>
    proposal_votes,     \* Mapping<Proposal, ProposalVote>
    votes,              \* Mapping<(ProposalId, AccountId), ()>: its key set
    next_proposal_id,   \* ProposalId
    quorum,             \* u8
    now,                \* self.env().block_timestamp()
    transfers,          \* history: the PSP22::transfer calls issued so far
    exec_ok,            \* history: the ids on which an execute returned Ok
    admitted,           \* history: the votes that returned Ok, each with the
                        \* weight it was given
    last                \* history: the last message call, its result and the
                        \* storage it started from

vars == <<proposals, proposal_votes, votes, next_proposal_id, quorum, now,
          transfers, exec_ok, admitted, last>>

\* ------------------------------------------------------- ink! Mapping
\* Option<T>: None is the empty sequence, Some(x) the sequence <<x>>.
None == <<>>
Some(x) == <<x>>

contains(m, k) == k \in DOMAIN m

get(m, k) == IF k \in DOMAIN m THEN Some(m[k]) ELSE None

insert(m, k, v) == [x \in (DOMAIN m) \cup {k} |-> IF x = k THEN v ELSE m[x]]

\* -------------------------------------------------------------- storage
\* The Governor struct, as one value.
Governor(ps, pv, vs, nid, q) ==
    [proposals |-> ps, proposal_votes |-> pv, votes |-> vs,
     next_proposal_id |-> nid, quorum |-> q]

Self == Governor(proposals, proposal_votes, votes, next_proposal_id, quorum)

\* Governor::new
new(q) == Governor(<<>>, <<>>, {}, 0, q)

\* struct Proposal
Proposal(to, vote_start, vote_end, executed, amount) ==
    [to |-> to, vote_start |-> vote_start, vote_end |-> vote_end,
     executed |-> executed, amount |-> amount]

\* struct ProposalVote
ProposalVote(for_votes, against_votes) ==
    [for_votes |-> for_votes, against_votes |-> against_votes]

\* What a message call yields: the result, the storage after the call and
\* the transfers the call issued.
Ret(res, self, issued) == [res |-> res, self |-> self, issued |-> issued]

\* A panic: the call traps and its storage writes are discarded.
Trap(before) == Ret("Panic", before, <<>>)

\* ------------------------------------------------------------- queries
\* Governor::get_proposal
get_proposal(self, proposal_id) == get(self.proposals, proposal_id)

\* Governor::get_proposal_votes, called only where get_proposal is Some
\* (its unwrap panics otherwise: the callers test that first).
get_proposal_votes(self, proposal_id) ==
    get(self.proposal_votes, get_proposal(self, proposal_id)[1])


\* -------------------------------------------------------------- propose
\* propose_check with the two validations in the other order.
propose_check_duration_first(amount, duration) ==
    IF duration <= 0 THEN "DurationError"
    ELSE IF amount <= 0 THEN "AmountShouldNotBeZero"
    ELSE "Ok"

\* The two validations of propose, in the order of the code: the result
\* propose returns.
propose_check(amount, duration) ==
    IF amount <= 0 THEN "AmountShouldNotBeZero"
    ELSE IF duration <= 0 THEN "DurationError"
    ELSE "Ok"

\* A vote_end that takes the duration for milliseconds, not minutes.
vote_end_of_unscaled(t, duration) == t + duration

\* vote_end: self.env().block_timestamp() + duration * ONE_MINUTE
vote_end_of(t, duration) == t + duration * ONE_MINUTE

\* An id that is not incremented: the id of the proposal before.
new_id_stale(self) == self.next_proposal_id

\* self.next_proposal_id = self.next_proposal_id() + 1: the id of the new
\* proposal.
new_id(self) == self.next_proposal_id + 1

\* Governor::propose at block timestamp t.
propose(self, to, amount, duration, t) ==
    IF propose_check(amount, duration) # "Ok"
    THEN Ret(propose_check(amount, duration), self, <<>>)
    ELSE
        LET proposal == Proposal(to, t, vote_end_of(t, duration), FALSE, amount)
            id == new_id(self)
        IN  Ret("Ok",
                [self EXCEPT
                    !.next_proposal_id = id,
                    !.proposals = insert(@, id, proposal),
                    !.proposal_votes = insert(@, proposal, ProposalVote(0, 0))],
                <<>>)

\* ----------------------------------------------------------------- vote
\* The first test of vote: whether the call returns ProposalNotFound.
vote_not_found(self, proposal_id) == contains(self.proposals, proposal_id)

\* A weight with the multiplication done before the division.
weight_multiplied_first(caller_balance, total_balance) ==
    (caller_balance * 100) \div total_balance

\* let weight = caller_balance / total_balance * 100; (total_balance > 0)
weight_of(caller_balance, total_balance) ==
    (caller_balance \div total_balance) * 100

\* A match on vote that assigns the weight where the code adds it.
tally_overwritten(old, vote_type, weight) ==
    IF vote_type = "Against"
    THEN ProposalVote(old.for_votes, weight)
    ELSE ProposalVote(weight, old.against_votes)

\* The match on vote: the weight goes to against_votes or to for_votes.
tally_after(old, vote_type, weight) ==
    IF vote_type = "Against"
    THEN ProposalVote(old.for_votes, old.against_votes + weight)
    ELSE ProposalVote(old.for_votes + weight, old.against_votes)

\* A cast_vote whose receipt outlives the panic of the division by zero.
cast_vote_receipt_kept(self, proposal_id, vote_type, caller, caller_balance, total_balance) ==
    LET receipted == [self EXCEPT !.votes = @ \cup {<<proposal_id, caller>>}]
        p == get_proposal(receipted, proposal_id)
    IN  IF total_balance = 0
        THEN Ret("Panic", receipted, <<>>)
        ELSE IF p = None
        THEN Trap(self)
        ELSE IF ~contains(receipted.proposal_votes, p[1])
        THEN Trap(self)
        ELSE
            LET weight == weight_of(caller_balance, total_balance)
                tally == tally_after(receipted.proposal_votes[p[1]],
                                     vote_type, weight)
            IN  Ret("Ok",
                    [receipted EXCEPT
                        !.proposal_votes = insert(@, p[1], tally)],
                    <<>>)

\* vote from the receipt on, the four tests of vote passed: the receipt, the
\* weight, the tally read, changed and written back.
cast_vote(self, proposal_id, vote_type, caller, caller_balance, total_balance) ==
    LET receipted == [self EXCEPT !.votes = @ \cup {<<proposal_id, caller>>}]
        p == get_proposal(receipted, proposal_id)
    IN  IF total_balance = 0
        THEN Trap(self)     \* division by zero
        ELSE IF p = None
        THEN Trap(self)     \* get_proposal(proposal_id).unwrap()
        ELSE IF ~contains(receipted.proposal_votes, p[1])
        THEN Trap(self)     \* proposal_votes.get(&p).expect("not found")
        ELSE
            LET weight == weight_of(caller_balance, total_balance)
                tally == tally_after(receipted.proposal_votes[p[1]],
                                     vote_type, weight)
            IN  Ret("Ok",
                    [receipted EXCEPT
                        !.proposal_votes = insert(@, p[1], tally)],
                    <<>>)

\* A vote that records the receipt before its four tests, not after them.
vote_receipt_first(self, proposal_id, vote_type, caller, caller_balance, total_balance, t) ==
    LET found == get_proposal(self, proposal_id)
        receipted == [self EXCEPT !.votes = @ \cup {<<proposal_id, caller>>}]
    IN
    IF vote_not_found(self, proposal_id)
    THEN Ret("ProposalNotFound", receipted, <<>>)
    ELSE IF found # None /\ found[1].executed = TRUE
    THEN Ret("ProposalAlreadyExecuted", receipted, <<>>)
    ELSE IF found # None /\ found[1].vote_end < t
    THEN Ret("VotePeriodEnded", receipted, <<>>)
    ELSE IF <<proposal_id, caller>> \in self.votes
    THEN Ret("AlreadyVoted", receipted, <<>>)
    ELSE cast_vote(self, proposal_id, vote_type, caller,
                   caller_balance, total_balance)

\* Governor::vote by caller at block timestamp t; caller_balance and
\* total_balance are the answers of the token contract.
vote(self, proposal_id, vote_type, caller, caller_balance, total_balance, t) ==
    LET found == get_proposal(self, proposal_id) IN
    IF vote_not_found(self, proposal_id)
    THEN Ret("ProposalNotFound", self, <<>>)
    ELSE IF found # None /\ found[1].executed = TRUE
    THEN Ret("ProposalAlreadyExecuted", self, <<>>)
    ELSE IF found # None /\ found[1].vote_end < t
    THEN Ret("VotePeriodEnded", self, <<>>)
    ELSE IF <<proposal_id, caller>> \in self.votes
    THEN Ret("AlreadyVoted", self, <<>>)
    ELSE cast_vote(self, proposal_id, vote_type, caller,
                   caller_balance, total_balance)

\* -------------------------------------------------------------- execute
\* execute_not_found with the test negated: the proposal is not stored.
execute_not_found_negated(self, proposal_id) ==
    ~contains(self.proposals, proposal_id)

\* The first test of execute: whether the call returns ProposalNotFound.
execute_not_found(self, proposal_id) == contains(self.proposals, proposal_id)

\* Governor::execute; transfer_ok is whether the token contract accepts the
\* PSP22::transfer call.  p is a copy of the stored proposal: p.executed =
\* true changes the copy, and nothing writes the copy back.
execute(self, proposal_id, transfer_ok) ==
    LET found == get_proposal(self, proposal_id) IN
    IF execute_not_found(self, proposal_id)
    THEN Ret("ProposalNotFound", self, <<>>)
    ELSE IF found = None
    THEN Trap(self)             \* get_proposal(proposal_id).unwrap()
    ELSE IF found[1].executed = TRUE
    THEN Ret("ProposalAlreadyExecuted", self, <<>>)
    ELSE
        LET tally == get_proposal_votes(self, proposal_id)
            p == [found[1] EXCEPT !.executed = TRUE]
        IN  IF tally # None
               /\ tally[1].against_votes + tally[1].for_votes < self.quorum
            THEN Ret("QuorumNotReached", self, <<>>)
            ELSE IF tally # None
                    /\ tally[1].against_votes < tally[1].for_votes
            THEN Ret("ProposalNotAccepted", self, <<>>)
            ELSE Ret(IF transfer_ok THEN "Ok" ELSE "TxFailed",
                     self,
                     <<[to |-> p.to, amount |-> p.amount, ok |-> transfer_ok]>>)

\* ------------------------------------------------------- state machine
\* The record of a call: the message, its inputs, its result, the number of
\* transfers it issued, the storage and timestamp it started from, and whether
\* an execute had returned Ok on its proposal id before.
Call(op, proposal_id, caller, vote_type, to, amount, duration, bal, total, r) ==
    [op |-> op, proposal_id |-> proposal_id, caller |-> caller,
     vote |-> vote_type, to |-> to, amount |-> amount, duration |-> duration,
     caller_balance |-> bal, total_balance |-> total,
     res |-> r.res, issued |-> Len(r.issued),
     pre |-> Self, pre_now |-> now, exec_ok_before |-> proposal_id \in exec_ok]

NoCall ==
    [op |-> "none", proposal_id |-> 0, caller |-> "none", vote |-> "none",
     to |-> "none", amount |-> 0, duration |-> 0,
     caller_balance |-> 0, total_balance |-> 0,
     res |-> "none", issued |-> 0,
     pre |-> Self, pre_now |-> now, exec_ok_before |-> FALSE]

\* An admitted vote: who voted on what, which way and with what weight.
Ballot(proposal_id, caller, vote_type, caller_balance, total_balance) ==
    [proposal_id |-> proposal_id, caller |-> caller, vote |-> vote_type,
     weight |-> weight_of(caller_balance, total_balance)]

\* The storage after a call.
Store(self) ==
    /\ proposals' = self.proposals
    /\ proposal_votes' = self.proposal_votes
    /\ votes' = self.votes
    /\ next_proposal_id' = self.next_proposal_id
    /\ quorum' = self.quorum

Init ==
    /\ \E q \in QuorumChoices :
        /\ proposals = new(q).proposals
        /\ proposal_votes = new(q).proposal_votes
        /\ votes = new(q).votes
        /\ next_proposal_id = new(q).next_proposal_id
        /\ quorum = new(q).quorum
    /\ now = 0
    /\ transfers = <<>>
    /\ exec_ok = {}
    /\ admitted = {}
    /\ last = NoCall

Propose ==
    \E to \in Accounts, amount \in Amounts, duration \in Durations :
        LET r == propose(Self, to, amount, duration, now) IN
        /\ r.self.next_proposal_id <= MaxProposals
        /\ Store(r.self)
        /\ last' = Call("propose", 0, "none", "none", to, amount, duration, 0, 0, r)
        /\ UNCHANGED <<now, transfers, exec_ok, admitted>>

Vote ==
    \E proposal_id \in ProposalIds, vote_type \in {"Against", "For"},
       caller \in Accounts, answer \in TokenAnswers :
        LET caller_balance == answer[1]
            total_balance == answer[2]
            r == vote(Self, proposal_id, vote_type, caller,
                      caller_balance, total_balance, now)
        IN
        /\ Store(r.self)
        /\ last' = Call("vote", proposal_id, caller, vote_type, "none", 0, 0,
                        caller_balance, total_balance, r)
        /\ admitted' = IF r.res = "Ok"
                       THEN admitted \cup {Ballot(proposal_id, caller, vote_type,
                                                  caller_balance, total_balance)}
                       ELSE admitted
        /\ UNCHANGED <<now, transfers, exec_ok>>

Execute ==
    \E proposal_id \in ProposalIds, transfer_ok \in BOOLEAN :
        LET r == execute(Self, proposal_id, transfer_ok)
            tally == IF contains(proposals, proposal_id)
                     THEN get_proposal_votes(Self, proposal_id) ELSE None
            sent == [i \in 1..Len(r.issued) |->
                        [proposal_id |-> proposal_id,
                         to |-> r.issued[i].to,
                         amount |-> r.issued[i].amount,
                         ok |-> r.issued[i].ok,
                         stored |-> get_proposal(Self, proposal_id),
                         tally |-> tally,
                         quorum |-> quorum]]
        IN
        /\ Store(r.self)
        /\ transfers' = transfers \o sent
        /\ exec_ok' = IF r.res = "Ok" THEN exec_ok \cup {proposal_id} ELSE exec_ok
        /\ last' = Call("execute", proposal_id, "none", "none", "none", 0, 0,
                        0, 0, r)
        /\ UNCHANGED <<now, admitted>>

\* The block timestamp advances between calls.
Tick ==
    /\ now < MaxTicks * TickStep
    /\ now' = now + TickStep
    /\ UNCHANGED <<proposals, proposal_votes, votes, next_proposal_id, quorum,
                   transfers, exec_ok, admitted, last>>

Next == Propose \/ Vote \/ Execute \/ Tick

Spec == Init /\ [][Next]_vars

\* ----------------------------------------------- the tallying of vote
\* The accounts that call vote on one proposal.
Voters == {"alice", "bob", "carol"}

\* The storage after new and one propose call that returned Ok.
InitTally ==
    /\ \E q \in QuorumChoices, to \in Accounts,
          amount \in Amounts, duration \in Durations :
        LET r == propose(new(q), to, amount, duration, 0) IN
        /\ r.res = "Ok"
        /\ proposals = r.self.proposals
        /\ proposal_votes = r.self.proposal_votes
        /\ votes = r.self.votes
        /\ next_proposal_id = r.self.next_proposal_id
        /\ quorum = r.self.quorum
    /\ now = 0
    /\ transfers = <<>>
    /\ exec_ok = {}
    /\ admitted = {}
    /\ last = NoCall

\* vote on proposal 1 from the receipt on, by a caller that has no receipt
\* for it: what lines 158-180 do once the four tests of vote have passed.
CastVote ==
    \E vote_type \in {"Against", "For"}, caller \in Voters,
       answer \in TokenAnswers :
        LET caller_balance == answer[1]
            total_balance == answer[2]
            r == cast_vote(Self, 1, vote_type, caller,
                           caller_balance, total_balance)
        IN
        /\ <<1, caller>> \notin votes
        /\ Store(r.self)
        /\ last' = Call("vote", 1, caller, vote_type, "none", 0, 0,
                        caller_balance, total_balance, r)
        /\ admitted' = IF r.res = "Ok"
                       THEN admitted \cup {Ballot(1, caller, vote_type,
                                                  caller_balance, total_balance)}
                       ELSE admitted
        /\ UNCHANGED <<now, transfers, exec_ok>>

NextTally == CastVote

SpecTally == InitTally /\ [][NextTally]_vars

\* ------------------------------------------------------------- claims
\* The proposal the last call named was stored when the call started.
PreStored == contains(last.pre.proposals, last.proposal_id)

\* That proposal, and the tally get_proposal_votes read for it.
PreProposal == last.pre.proposals[last.proposal_id]

PreTally == get_proposal_votes(last.pre, last.proposal_id)[1]

\* The tally read for proposal id in storage self.
TallyOf(self, id) == get_proposal_votes(self, id)[1]

\* The number of transfers issued for proposal id.
TransfersFor(id) ==
    Cardinality({i \in 1..Len(transfers) : transfers[i].proposal_id = id})

\* The gate of execute as the specification states it: the tally reaches the
\* quorum and the votes for outweigh the votes against.
GatePassed(tally, q) ==
    /\ tally.for_votes + tally.against_votes >= q
    /\ tally.for_votes > tally.against_votes

\* What the calls can reach: vote returns before its tally update on every
\* stored proposal and panics on every other id, and execute returns before
\* its gate on every stored proposal and panics on every other id.  So no
\* receipt is kept, every tally stays at zero, no proposal is executed and no
\* transfer is issued.
NoVoteAdmitted ==
    /\ votes = {}
    /\ \A p \in DOMAIN proposal_votes : proposal_votes[p] = ProposalVote(0, 0)
    /\ last.op = "vote" => last.res \in {"ProposalNotFound", "Panic"}

NoExecuteSucceeds ==
    /\ transfers = <<>>
    /\ exec_ok = {}
    /\ \A id \in DOMAIN proposals : ~proposals[id].executed
    /\ last.op = "execute" => last.res \in {"ProposalNotFound", "Panic"}

\* C1: at most one transfer is ever issued for a proposal id; an execute call
\* on an id on which an earlier execute returned Ok fails with
\* ProposalAlreadyExecuted and issues no transfer.  (It holds with no
\* transfer at all: by NoExecuteSucceeds no execute call ever returns Ok.)
C1_AtMostOneTransfer ==
    /\ \A id \in ProposalIds : TransfersFor(id) <= 1
    /\ (last.op = "execute" /\ last.exec_ok_before)
        => (last.res = "ProposalAlreadyExecuted" /\ last.issued = 0)

\* C2: every transfer issued was issued by an execute call on a stored,
\* not yet executed proposal whose tally passed the gate at the time of the
\* call, and the executed flag of a proposal turns true only in such a call.
C2_TransferOnlyWhenGated ==
    /\ \A i \in 1..Len(transfers) :
        /\ transfers[i].stored # None
        /\ ~transfers[i].stored[1].executed
        /\ transfers[i].tally # None
        /\ GatePassed(transfers[i].tally[1], transfers[i].quorum)
    /\ \A id \in DOMAIN last.pre.proposals :
        (~last.pre.proposals[id].executed /\ proposals[id].executed)
            => /\ last.op = "execute"
               /\ last.proposal_id = id
               /\ GatePassed(PreTally, last.pre.quorum)

\* An execute call on a stored, not yet executed proposal whose tally fails
\* the gate: no transfer, and the proposal is still not executed.
C2_Witness ==
    /\ last.op = "execute"
    /\ PreStored
    /\ ~PreProposal.executed
    /\ ~GatePassed(PreTally, last.pre.quorum)
    /\ last.issued = 0
    /\ transfers = <<>>
    /\ ~proposals[last.proposal_id].executed

\* C4: execute on a stored, not yet executed proposal whose tally is below
\* the quorum fails with QuorumNotReached and issues no transfer.
C4_QuorumNotReached ==
    (/\ last.op = "execute"
     /\ PreStored
     /\ ~PreProposal.executed
     /\ PreTally.for_votes + PreTally.against_votes < last.pre.quorum)
        => (last.res = "QuorumNotReached" /\ last.issued = 0)

\* C5: execute on a stored, not yet executed proposal whose tally reaches the
\* quorum with for_votes <= against_votes fails with ProposalNotAccepted,
\* issues no transfer and leaves the proposal not executed; execute never
\* fails with ProposalNotAccepted when for_votes > against_votes.
C5_ProposalNotAccepted ==
    last.op = "execute" =>
        /\ (/\ PreStored
            /\ ~PreProposal.executed
            /\ PreTally.for_votes + PreTally.against_votes >= last.pre.quorum
            /\ PreTally.for_votes <= PreTally.against_votes)
              => /\ last.res = "ProposalNotAccepted"
                 /\ last.issued = 0
                 /\ ~proposals[last.proposal_id].executed
        /\ (last.res = "ProposalNotAccepted")
              => (PreStored /\ PreTally.for_votes <= PreTally.against_votes)

\* C6: vote and execute return ProposalNotFound exactly when no proposal is
\* stored under the proposal id they are given.
C6_NotFoundIffAbsent ==
    last.op \in {"vote", "execute"}
        => ((last.res = "ProposalNotFound") <=> ~PreStored)

\* C8: on a stored, not yet executed proposal, vote fails with
\* VotePeriodEnded exactly when now > vote_end; at now = vote_end a vote by an
\* account without a receipt is admitted; past vote_end no receipt is recorded
\* and no tally changes.
C8_VotePeriod ==
    (last.op = "vote" /\ PreStored /\ ~PreProposal.executed)
        => /\ (last.res = "VotePeriodEnded")
                <=> (last.pre_now > PreProposal.vote_end)
           /\ (/\ last.pre_now = PreProposal.vote_end
               /\ <<last.proposal_id, last.caller>> \notin last.pre.votes
               /\ last.total_balance > 0)
                 => last.res = "Ok"
           /\ (last.pre_now > PreProposal.vote_end)
                 => (votes = last.pre.votes
                     /\ proposal_votes = last.pre.proposal_votes)

\* C9: in every step the for_votes and against_votes read for a stored
\* proposal do not decrease, and they change only in a step taken while
\* now <= vote_end and the proposal is not executed.  (It holds with tallies
\* that never change: by NoVoteAdmitted every tally stays at zero.)
C9_WeightsMonotone ==
    [][\A id \in DOMAIN proposals :
        /\ TallyOf(Self, id).for_votes <= TallyOf(Self, id)'.for_votes
        /\ TallyOf(Self, id).against_votes <= TallyOf(Self, id)'.against_votes
        /\ (TallyOf(Self, id)' # TallyOf(Self, id))
              => (now <= proposals[id].vote_end /\ ~proposals[id].executed)
      ]_vars

\* C10: propose with amount <= 0 fails with AmountShouldNotBeZero, also when
\* the duration is invalid too; propose with amount > 0 and duration <= 0
\* fails with DurationError; both leave the whole storage as it was.
C10_ProposeRejects ==
    last.op = "propose" =>
        /\ (last.amount <= 0)
              => (last.res = "AmountShouldNotBeZero" /\ Self = last.pre)
        /\ (last.amount > 0 /\ last.duration <= 0)
              => (last.res = "DurationError" /\ Self = last.pre)

\* A propose call with amount 0 and duration 0 made when a proposal is
\* stored: it fails on the amount, and the storage is as it was.
C10_Witness ==
    /\ last.op = "propose"
    /\ last.amount = 0
    /\ last.duration = 0
    /\ last.res = "AmountShouldNotBeZero"
    /\ Self = last.pre
    /\ next_proposal_id > 0

\* C11: a propose call that returns Ok raises next_proposal_id by exactly 1
\* and stores under the new id, and under no other, one proposal with the
\* beneficiary and amount given, vote_start = now, vote_end = now +
\* duration * 60 and executed = false; the tally read for the new id is
\* zero on both sides; the first such call assigns id 1.
C11_ProposeStores ==
    (last.op = "propose" /\ last.res = "Ok") =>
        LET id == last.pre.next_proposal_id + 1 IN
        /\ next_proposal_id = id
        /\ ~contains(last.pre.proposals, id)
        /\ DOMAIN proposals = DOMAIN last.pre.proposals \cup {id}
        /\ \A i \in DOMAIN last.pre.proposals :
                proposals[i] = last.pre.proposals[i]
        /\ proposals[id].to = last.to
        /\ proposals[id].amount = last.amount
        /\ proposals[id].vote_start = last.pre_now
        /\ proposals[id].vote_end = last.pre_now + last.duration * 60
        /\ proposals[id].executed = FALSE
        /\ get_proposal_votes(Self, id) = Some(ProposalVote(0, 0))
        /\ (last.pre.proposals = new(quorum).proposals) => id = 1

\* A first propose call that returns Ok, made after the timestamp has
\* advanced: id 1 is stored with a vote_end one minute after now.
C11_Witness ==
    /\ last.op = "propose"
    /\ last.res = "Ok"
    /\ last.pre.next_proposal_id = 0
    /\ last.pre_now = ONE_MINUTE
    /\ last.duration = 1
    /\ DOMAIN proposals = {1}
    /\ proposals[1].vote_end = 2 * ONE_MINUTE
    /\ get_proposal_votes(Self, 1) = Some(ProposalVote(0, 0))

\* C12: with quorum = 50 and proposal 1 made by propose(B, 100, 1), a For
\* vote on proposal 1 within the voting period by an account without a
\* receipt that holds 60% of the supply returns Ok and leaves for_votes = 60;
\* execute(1) on that tally returns Ok and issues one transfer of 100 to B;
\* an execute(1) after one that returned Ok fails with
\* ProposalAlreadyExecuted.
C12_EndToEnd ==
    (/\ last.pre.quorum = 50
     /\ last.proposal_id = 1
     /\ PreStored
     /\ PreProposal.amount = 100
     /\ PreProposal.vote_end = PreProposal.vote_start + 60) =>
        /\ (/\ last.op = "vote"
            /\ last.vote = "For"
            /\ ~PreProposal.executed
            /\ last.pre_now <= PreProposal.vote_end
            /\ <<1, last.caller>> \notin last.pre.votes
            /\ last.total_balance > 0
            /\ last.caller_balance * 100 = 60 * last.total_balance
            /\ PreTally = ProposalVote(0, 0))
              => /\ last.res = "Ok"
                 /\ TallyOf(Self, 1) = ProposalVote(60, 0)
        /\ (/\ last.op = "execute"
            /\ ~PreProposal.executed
            /\ PreTally = ProposalVote(60, 0))
              => /\ last.res = "Ok"
                 /\ last.issued = 1
                 /\ transfers[Len(transfers)].to = PreProposal.to
                 /\ transfers[Len(transfers)].amount = 100
        /\ (last.op = "execute" /\ last.exec_ok_before)
              => last.res = "ProposalAlreadyExecuted"

\* The error values that report a failed validation.
ValidationErrors ==
    {"ProposalNotFound", "ProposalAlreadyExecuted", "VotePeriodEnded",
     "AlreadyVoted", "QuorumNotReached", "ProposalNotAccepted",
     "AmountShouldNotBeZero", "DurationError"}

\* C13: a propose, vote or execute call that returns one of the eight
\* validation errors leaves the proposals, the tallies, the vote receipts and
\* next_proposal_id as they were when the call started.
C13_FailureKeepsStorage ==
    (last.op \in {"propose", "vote", "execute"} /\ last.res \in ValidationErrors)
        => /\ proposals = last.pre.proposals
           /\ proposal_votes = last.pre.proposal_votes
           /\ votes = last.pre.votes
           /\ next_proposal_id = last.pre.next_proposal_id

\* A vote call that fails a validation with two proposals stored: no receipt
\* is kept, and the proposals, tallies and counter are as they were.
C13_Witness ==
    /\ last.op = "vote"
    /\ last.res \in ValidationErrors
    /\ last.pre.next_proposal_id = 2
    /\ <<last.proposal_id, last.caller>> \notin votes
    /\ proposals = last.pre.proposals
    /\ proposal_votes = last.pre.proposal_votes
    /\ next_proposal_id = 2

\* enum GovernorError
GovernorError ==
    {"ProposalNotFound", "ProposalAlreadyExecuted", "QuorumNotReached",
     "ProposalNotAccepted", "AmountShouldNotBeZero", "DurationError",
     "VotePeriodEnded", "AlreadyVoted", "TxFailed"}

\* C14: with a total supply above zero, every vote call and every execute
\* call, whatever the proposal id and the caller, returns Ok or one of the
\* nine GovernorError values; none ends in a panic.
C14_NoPanic ==
    (\/ last.op = "vote" /\ last.total_balance > 0
     \/ last.op = "execute")
        => last.res \in {"Ok"} \cup GovernorError

\* The sum of the weights of a set of admitted votes.
RECURSIVE SumWeights(_)
SumWeights(ballots) ==
    IF ballots = {} THEN 0
    ELSE LET b == CHOOSE x \in ballots : TRUE
         IN  b.weight + SumWeights(ballots \ {b})

\* The admitted votes on proposal id for one choice.
BallotsFor(id, vote_type) ==
    {b \in admitted : b.proposal_id = id /\ b.vote = vote_type}

C16_TxFailedBlocksRetry ==
    last.op = "execute" =>
        /\ (last.res = "TxFailed")
              => /\ PreStored
                 /\ last.issued = 1
                 /\ proposals[last.proposal_id].executed
        /\ (PreStored /\ PreProposal.executed)
              => (last.res = "ProposalAlreadyExecuted" /\ last.issued = 0)

\* What the last vote call added to the tally of its proposal, on the side
\* of its choice and on the other side.
AddedOwnSide ==
    IF last.vote = "For"
    THEN TallyOf(Self, last.proposal_id).for_votes - PreTally.for_votes
    ELSE TallyOf(Self, last.proposal_id).against_votes - PreTally.against_votes

AddedOtherSide ==
    IF last.vote = "For"
    THEN TallyOf(Self, last.proposal_id).against_votes - PreTally.against_votes
    ELSE TallyOf(Self, last.proposal_id).for_votes - PreTally.for_votes

VoteTestErrors ==
    {"ProposalNotFound", "ProposalAlreadyExecuted", "VotePeriodEnded",
     "AlreadyVoted"}

\* The last call is a vote that passed its four tests and met a total supply
\* of zero, so that its weight cannot be computed.
WeightQueryFailed ==
    /\ last.op = "vote"
    /\ last.total_balance = 0
    /\ last.res \notin VoteTestErrors

C19_IdsAndProposalsKept ==
    /\ [](DOMAIN proposals = 1..next_proposal_id)
    /\ [][/\ next_proposal_id' >= next_proposal_id
          /\ \A id \in DOMAIN proposals :
                /\ id \in DOMAIN proposals'
                /\ proposals'[id].to = proposals[id].to
                /\ proposals'[id].amount = proposals[id].amount
                /\ proposals'[id].vote_start = proposals[id].vote_start
                /\ proposals'[id].vote_end = proposals[id].vote_end
                /\ (proposals'[id].executed # proposals[id].executed)
                      => (last'.op = "execute" /\ last'.proposal_id = id)
        ]_vars

\* A second propose call has returned Ok at a later timestamp than the
\* first: ids 1 and 2 are stored, and proposal 1 is as it was.
C19_Witness ==
    /\ last.op = "propose"
    /\ last.res = "Ok"
    /\ next_proposal_id = 2
    /\ DOMAIN proposals = {1, 2}
    /\ proposals[1] = last.pre.proposals[1]
    /\ proposals[1].vote_start < proposals[2].vote_start

\* C20: every stored proposal id has a tally of its own, so there are as
\* many tallies stored as proposals, also when two proposals have the same
\* beneficiary, amount, vote_start and vote_end; a vote call changes no tally
\* but the one read for its proposal id; and a propose call leaves the tally
\* read for every proposal stored before it as it was.
C20_OwnTally ==
    /\ Cardinality(DOMAIN proposal_votes) = Cardinality(DOMAIN proposals)
    /\ \A i, j \in DOMAIN proposals :
            i # j => \E key \in DOMAIN proposal_votes :
                        (key = proposals[i]) # (key = proposals[j])
    /\ (last.op = "vote")
          => \A j \in DOMAIN last.pre.proposals \ {last.proposal_id} :
                TallyOf(Self, j) = TallyOf(last.pre, j)
    /\ (last.op = "propose")
          => \A j \in DOMAIN last.pre.proposals :
                TallyOf(Self, j) = TallyOf(last.pre, j)

=============================================================================
